---- MODULE Spec2Model ----
(***************************************************************************)
(* A model of the stc_api backend: the outbox helpers                      *)
(* (src/app/services/outbox.py) and the identity / survey / quiz request   *)
(* handlers (src/app/routers/{surveys,users,quiz}.py) over the MongoDB     *)
(* collections and the indexes of src/app/dependencies/db.py.              *)
(*                                                                         *)
(* Every awaited store call is one atomic action (MongoDB single-document  *)
(* operations are atomic); a handler is the sequence of its store calls.   *)
(***************************************************************************)
EXTENDS Integers, Sequences, FiniteSets, TLC

VARIABLES
    outbox,       \* db["outbox"]: sequence of events, _id = position
    outbox_log,   \* db["outbox_log"]: sequence of log entries
    disp,         \* per dispatcher: the frame of its process_outbox_batch call
    claimCount,   \* history: per event, how often a claim has returned it
    handled,      \* history: per event, how often the handler was invoked on it
    raised,       \* history: the events on which the handler has raised
    inserted_id,  \* the value the last enqueue_outbox call returned
    faults,       \* history: store-call failures and crashes injected so far
    users,        \* db["users"]: sequence of identity documents
    surveys,      \* db["surveys"]: sequence of survey documents
    quiz_results, \* db["quiz_results"]: sequence of quiz result documents
    proc,         \* per request: the frame of its handler
    pre,          \* history: the collections as the last started request found them
    settings,     \* get_settings() and the middleware's public_paths
    http,         \* the last request the middleware saw and what it did with it
    keys,         \* db["keys"]: sequence of access-key documents
    gen,          \* the frame of the generate_keys call
    issued,       \* history: the plaintext keys generate_keys calls have returned
    validated,    \* the last validate_key call and its response
    _client,      \* the module global _client of db.py: None or a client
    _db,          \* the module global _db of db.py: None or a database handle
    clients,      \* history: the AsyncIOMotorClient objects constructed so far
    conn          \* per caller: the frame of its get_db call

vars == <<outbox, outbox_log, disp, claimCount, handled, raised, faults,
          inserted_id,
          users, surveys, quiz_results, proc, pre,
          settings, http, keys, gen, issued, validated,
          _client, _db, clients, conn>>

outboxVars ==
    <<outbox, outbox_log, disp, claimCount, handled, raised, faults, inserted_id>>
apiVars == <<users, surveys, quiz_results, proc, pre>>
authVars == <<settings, http>>
keyVars == <<keys, gen, issued, validated>>
dbVars == <<_client, _db, clients, conn>>
edgeVars == <<authVars, keyVars, dbVars>>

(***************************************************************************)
(* Bounds of the model.                                                    *)
(***************************************************************************)
MaxEvents == 3
NumDispatchers == 2
MaxLimit == 2
MaxFaults == 1
NumProcs == 3
MaxSysId == 2
MaxHeaders == 2
MaxCount == 2
MaxCalls == 3
NumCallers == 3

Dispatchers == 1..NumDispatchers
Procs == 1..NumProcs
Callers == 1..NumCallers

NoValue == "None"

Min(S) == CHOOSE x \in S : \A y \in S : x <= y

(***************************************************************************)
(* src/app/services/outbox.py                                              *)
(***************************************************************************)
STATUS_PENDING == "PENDING"
STATUS_PROCESSING == "PROCESSING"
STATUS_DONE == "DONE"
STATUS_FAILED == "FAILED"

Topics == {"notify"}

\* The collections as a process_outbox_batch call finds them at entry.
NoStart == [outbox |-> <<>>, outbox_log |-> <<>>, handled |-> <<>>]

\* The frame of a dispatcher: the locals of process_outbox_batch (pc, iter, evt,
\* exc, done, failed, ret) and the history of the call (limit, the collections
\* at entry, claims issued, events claimed, events whose handler raised).
IdleFrame ==
    [pc |-> "idle", iter |-> 0, evt |-> 0, exc |-> NoValue,
     done |-> 0, failed |-> 0, nclaims |-> 0, ret |-> NoValue,
     limit |-> 0, start |-> NoStart, claimed |-> {}, raisedOn |-> {}]

\* str(e) and repr(e) of the exceptions the model raises.
str(e) == IF e = "HandlerError" THEN "boom" ELSE "store unavailable"

\* A representation that would drop the exception's type.
reprBare(e) == str(e)

repr(e) == e \o "('" \o str(e) \o "')"

\* No process_outbox_batch call is running.
Quiet == \A d \in Dispatchers : disp[d].pc = "idle"

\* An event document that would be born claimed.
OutboxDocClaimed(topic) ==
    [topic |-> topic, status |-> STATUS_PROCESSING, attempts |-> 1,
     error |-> NoValue]

\* The document enqueue_outbox inserts.
OutboxDoc(topic) ==
    [topic |-> topic, status |-> STATUS_PENDING, attempts |-> 0, error |-> NoValue]

\* enqueue_outbox: insert one PENDING event with attempts 0 and return
\* str(res.inserted_id). With seq the producer runs only while no dispatcher
\* does.
enqueue_outbox(topic, seq) ==
    /\ Len(outbox) < MaxEvents
    /\ seq => Quiet
    /\ outbox' = Append(outbox, OutboxDoc(topic))
    /\ inserted_id' = ToString(Len(outbox) + 1)
    /\ claimCount' = Append(claimCount, 0)
    /\ handled' = Append(handled, 0)
    /\ UNCHANGED <<outbox_log, disp, raised, faults>>
    /\ UNCHANGED <<apiVars, edgeVars>>

\* A loop that would run one pass too many.
rangePlusOne(limit) == limit + 1

\* The number of passes of `for _ in range(limit)`.
range(limit) == limit

\* process_outbox_batch(db, handler, limit): entry, processed = {0, 0}. With seq
\* the call starts only while no other call runs.
StartBatch(d, limit, seq) ==
    /\ disp[d].pc = "idle"
    /\ seq => Quiet
    /\ disp' = [disp EXCEPT ![d] =
           [IdleFrame EXCEPT !.pc = "claim", !.iter = range(limit), !.limit = limit,
                             !.start = IF seq
                                       THEN [outbox |-> outbox,
                                             outbox_log |-> outbox_log,
                                             handled |-> handled]
                                       ELSE NoStart]]
    /\ UNCHANGED <<outbox, outbox_log, claimCount, handled, raised, faults, inserted_id, apiVars, edgeVars>>

\* A filter that would take FAILED events up again.
ClaimFilterRetry(e) == e.status \in {STATUS_PENDING, STATUS_FAILED}

\* A filter that would also match an event already claimed.
ClaimFilterLoose(e) == e.status \in {STATUS_PENDING, STATUS_PROCESSING}

\* A filter that would match every event.
ClaimFilterAny(e) == e.status \in {STATUS_PENDING, STATUS_PROCESSING,
                                   STATUS_DONE, STATUS_FAILED}

\* The filter of the claiming find_one_and_update.
ClaimFilter(e) == e.status = STATUS_PENDING

Claimable == {i \in 1..Len(outbox) : ClaimFilter(outbox[i])}

\* An update that would set the status and leave attempts alone.
ClaimUpdateNoInc(e) == [e EXCEPT !.status = STATUS_PROCESSING]

\* The update of the claiming find_one_and_update:
\* $set status PROCESSING, $inc attempts 1.
ClaimUpdate(e) == [e EXCEPT !.status = STATUS_PROCESSING, !.attempts = @ + 1]

\* One pass of `for _ in range(limit)`: the atomic find_one_and_update, the
\* `break` when it finds nothing, and the `return processed` after the loop.
ClaimNext(d) ==
    /\ disp[d].pc = "claim"
    /\ IF disp[d].iter = 0
       THEN /\ disp' = [disp EXCEPT ![d].pc = "idle", ![d].ret = "returned"]
            /\ UNCHANGED <<outbox, claimCount>>
       ELSE IF Claimable = {}
       THEN /\ disp' = [disp EXCEPT ![d].pc = "idle", ![d].ret = "returned",
                                    ![d].nclaims = @ + 1]
            /\ UNCHANGED <<outbox, claimCount>>
       ELSE \E i \in Claimable :
            /\ outbox' = [outbox EXCEPT ![i] = ClaimUpdate(@)]
            /\ claimCount' = [claimCount EXCEPT ![i] = @ + 1]
            /\ disp' = [disp EXCEPT ![d].pc = "handler", ![d].evt = i,
                                    ![d].nclaims = @ + 1,
                                    ![d].claimed = @ \cup {i}]
    /\ UNCHANGED <<outbox_log, handled, raised, faults, inserted_id, apiVars, edgeVars>>

\* await maybe_await(handler(evt)): the handler returns or raises.
InvokeHandler(d) ==
    /\ disp[d].pc = "handler"
    /\ handled' = [handled EXCEPT ![disp[d].evt] = @ + 1]
    /\ \E ok \in BOOLEAN :
         /\ disp' = [disp EXCEPT
                ![d].pc = IF ok THEN "mark_done" ELSE "mark_failed",
                ![d].exc = IF ok THEN NoValue ELSE "HandlerError",
                ![d].raisedOn = IF ok THEN @ ELSE @ \cup {disp[d].evt}]
         /\ raised' = IF ok THEN raised ELSE raised \cup {disp[d].evt}
    /\ UNCHANGED <<outbox, outbox_log, claimCount, faults, inserted_id, apiVars, edgeVars>>

\* A store call that raises (connectivity, timeout): nothing is written.
StoreFails == faults < MaxFaults

\* try: update_one status DONE. A raise inside the try enters the except block.
MarkDone(d) ==
    /\ disp[d].pc = "mark_done"
    /\ \E fail \in {f \in BOOLEAN : f => StoreFails} :
         IF fail
         THEN /\ disp' = [disp EXCEPT ![d].pc = "mark_failed", ![d].exc = "StoreError"]
              /\ faults' = faults + 1
              /\ UNCHANGED outbox
         ELSE /\ outbox' = [outbox EXCEPT ![disp[d].evt].status = STATUS_DONE]
              /\ disp' = [disp EXCEPT ![d].pc = "log_done"]
              /\ UNCHANGED faults
    /\ UNCHANGED <<outbox_log, claimCount, handled, raised, inserted_id, apiVars, edgeVars>>

\* A count that would go up by two.
IncrementedTwice(count) == count + 2

\* processed["done"] += 1 and processed["failed"] += 1.
Incremented(count) == count + 1

\* A log document that would never carry the error.
LogDocNoError(i, status, error) ==
    [outboxId |-> i, topic |-> outbox[i].topic, status |-> status,
     error |-> NoValue]

\* A log document that would always say DONE.
LogDocAlwaysDone(i, status, error) ==
    [outboxId |-> i, topic |-> outbox[i].topic, status |-> STATUS_DONE,
     error |-> error]

\* The document of outbox_log.insert_one for event i.
LogDoc(i, status, error) ==
    [outboxId |-> i, topic |-> outbox[i].topic, status |-> status, error |-> error]

\* try: outbox_log.insert_one DONE; processed["done"] += 1.
LogDone(d) ==
    /\ disp[d].pc = "log_done"
    /\ \E fail \in {f \in BOOLEAN : f => StoreFails} :
         IF fail
         THEN /\ disp' = [disp EXCEPT ![d].pc = "mark_failed", ![d].exc = "StoreError"]
              /\ faults' = faults + 1
              /\ UNCHANGED outbox_log
         ELSE /\ outbox_log' = Append(outbox_log,
                    LogDoc(disp[d].evt, STATUS_DONE, NoValue))
              /\ disp' = [disp EXCEPT ![d].pc = "claim",
                                      ![d].done = Incremented(@),
                                      ![d].iter = @ - 1, ![d].evt = 0]
              /\ UNCHANGED faults
    /\ UNCHANGED <<outbox, claimCount, handled, raised, inserted_id, apiVars, edgeVars>>

\* except Exception as e: update_one status FAILED, error = repr(e). A raise here
\* leaves process_outbox_batch.
MarkFailed(d) ==
    /\ disp[d].pc = "mark_failed"
    /\ \E fail \in {f \in BOOLEAN : f => StoreFails} :
         IF fail
         THEN /\ disp' = [disp EXCEPT ![d].pc = "idle", ![d].ret = "raised"]
              /\ faults' = faults + 1
              /\ UNCHANGED outbox
         ELSE /\ outbox' = [outbox EXCEPT ![disp[d].evt].status = STATUS_FAILED,
                                          ![disp[d].evt].error = repr(disp[d].exc)]
              /\ disp' = [disp EXCEPT ![d].pc = "log_failed"]
              /\ UNCHANGED faults
    /\ UNCHANGED <<outbox_log, claimCount, handled, raised, inserted_id, apiVars, edgeVars>>

\* except: outbox_log.insert_one FAILED; processed["failed"] += 1.
LogFailed(d) ==
    /\ disp[d].pc = "log_failed"
    /\ \E fail \in {f \in BOOLEAN : f => StoreFails} :
         IF fail
         THEN /\ disp' = [disp EXCEPT ![d].pc = "idle", ![d].ret = "raised"]
              /\ faults' = faults + 1
              /\ UNCHANGED outbox_log
         ELSE /\ outbox_log' = Append(outbox_log,
                    LogDoc(disp[d].evt, STATUS_FAILED, repr(disp[d].exc)))
              /\ disp' = [disp EXCEPT ![d].pc = "claim",
                                      ![d].failed = Incremented(@),
                                      ![d].iter = @ - 1, ![d].exc = NoValue,
                                      ![d].evt = 0]
              /\ UNCHANGED faults
    /\ UNCHANGED <<outbox, claimCount, handled, raised, inserted_id, apiVars, edgeVars>>

\* The dispatcher process dies in the middle of a call (no code runs).
Crash(d) ==
    /\ disp[d].pc \notin {"idle"}
    /\ StoreFails
    /\ faults' = faults + 1
    /\ disp' = [disp EXCEPT ![d].pc = "idle", ![d].ret = "crashed"]
    /\ UNCHANGED <<outbox, outbox_log, claimCount, handled, raised, inserted_id, apiVars, edgeVars>>

(***************************************************************************)
(* The users, surveys and quiz_results collections with the indexes of     *)
(* src/app/dependencies/db.py, and the request handlers over them.         *)
(***************************************************************************)
QrIds == {"QR-1", "QR-2"}
PhoneCountryCodes == {"+971"}
PhoneNumbers == {"5551111", "5552222"}
Names == {"Ann"}
Companies == {NoValue}
Interests == {"None", "Smart Finance"}
CorrectAnswers == {3, 5}
SysIds == 1..MaxSysId

\* _to_e164 on validated input (cc carries its "+", number is digits only).
_to_e164(cc, number) == cc \o number

\* new_uuid(): a random draw; two draws may collide.
new_uuid == SysIds

\* users without uq_phone_e164.
UsersUniqueKeysNoPhone == {"qrId", "sysId"}

\* users without uq_sysId.
UsersUniqueKeysNoSysId == {"qrId", "phoneE164"}

\* users without uq_qrId.
UsersUniqueKeysNoQr == {"sysId", "phoneE164"}

\* _ensure_indexes: the unique indexes of users (uq_qrId, uq_sysId,
\* uq_phone_e164).
UsersUniqueKeys == {"qrId", "sysId", "phoneE164"}

\* quiz_results with the non-unique fallback index.
QuizUniqueKeysNone == {}

\* _ensure_indexes: uq_quiz_qrId (created unique on a collection without
\* legacy duplicates). surveys has no unique index.
QuizUniqueKeys == {"qrId"}

\* The unique indexes an insert of doc into coll would violate.
Violated(coll, unique, doc) ==
    {k \in unique : \E i \in 1..Len(coll) : coll[i][k] = doc[k]}

\* find_one({key: value}): the position of the first match, 0 for None.
find_one(coll, key, value) ==
    LET hits == {i \in 1..Len(coll) : coll[i][key] = value}
    IN IF hits = {} THEN 0 ELSE Min(hits)

\* The instants datetime.now(timezone.utc) may return: the last hour of one
\* day and the first hour of the next.
Clock == {[day |-> 1, hour |-> 23], [day |-> 2, hour |-> 0]}

\* A single instant.
Noon == {[day |-> 1, hour |-> 12]}

\* A stored null where a datetime may stand.
NoDate == [day |-> 0, hour |-> 0]

\* a is not later than b.
NotAfter(a, b) == a.day < b.day \/ (a.day = b.day /\ a.hour <= b.hour)

\* An instant before every request of the model.
Yesterday == [day |-> 0, hour |-> 12]

\* An identity of the earlier generation (src/models.py: phone optional, no
\* phoneE164): the case lines 156 and 164 of surveys.py test for.
LegacyUser ==
    [sysId |-> 0, qrId |-> "QR-1", name |-> "Ann", company |-> NoValue,
     phoneE164 |-> NoValue, totalQuizzes |-> 0, totalCorrectAnswers |-> 0,
     createdAt |-> Yesterday]

IdleProc ==
    [pc |-> "idle", kind |-> NoValue, qr |-> NoValue, e164 |-> NoValue,
     name |-> NoValue, company |-> NoValue, interest |-> NoValue, correct |-> 0,
     sysId |-> -1, setPhone |-> FALSE, dup |-> NoValue, dupOp |-> NoValue,
     status |-> NoValue, message |-> NoValue,
     eligible |-> NoValue, told |-> NoValue]

Snapshot(p) ==
    [who |-> p, users |-> users, surveys |-> surveys, quiz_results |-> quiz_results]

\* A request may start when its slot is free; in a sequential run only when no
\* other request is in flight, and the collections it finds are recorded.
CanStart(p, seq) ==
    /\ proc[p].pc = "idle"
    /\ seq => \A q \in Procs : proc[q].pc \in {"idle", "done"}
    /\ pre' = IF seq THEN Snapshot(p) ELSE pre

\* return {"status": ..., "message": ...}
Return(p, status, message) ==
    [proc[p] EXCEPT !.pc = "done", !.status = status, !.message = message,
                    !.setPhone = FALSE]

\* An exception that leaves the handler (FastAPI answers 500).
Raise(p, exception) ==
    [proc[p] EXCEPT !.pc = "done", !.status = "exception", !.message = exception,
                    !.setPhone = FALSE]

\* ---- submit_survey (src/app/routers/surveys.py) ----

StartSubmitSurvey(p, seq, interests) ==
    /\ CanStart(p, seq)
    /\ \E qr \in QrIds, cc \in PhoneCountryCodes, num \in PhoneNumbers,
          name \in Names, company \in Companies, interest \in interests :
         proc' = [proc EXCEPT ![p] =
                    [IdleProc EXCEPT !.pc = "s_exists", !.kind = "submit_survey",
                                     !.qr = qr, !.e164 = _to_e164(cc, num),
                                     !.name = name, !.company = company,
                                     !.interest = interest]]
    /\ UNCHANGED <<users, surveys, quiz_results, outboxVars, edgeVars>>

\* exists = surveys.find_one({"phoneE164": e164}); if exists: return error
SurveyExists(p) ==
    /\ proc[p].pc = "s_exists"
    /\ proc' = [proc EXCEPT ![p] =
          IF find_one(surveys, "phoneE164", proc[p].e164) # 0
          THEN Return(p, "error",
                      "A survey has already been submitted for this phone number")
          ELSE [proc[p] EXCEPT !.pc = "s_find_user"]]
    /\ UNCHANGED <<users, surveys, quiz_results, pre, outboxVars, edgeVars>>

\* _get_or_create_user_by_qr: existing_by_qr = users.find_one({"qrId": qr_id});
\* the phone-on-file test and the building of `updates` (never empty: name is
\* a validated non-empty string).
SurveyFindUser(p) ==
    /\ proc[p].pc = "s_find_user"
    /\ LET i == find_one(users, "qrId", proc[p].qr)
       IN proc' = [proc EXCEPT ![p] =
            IF i = 0
            THEN [proc[p] EXCEPT !.pc = "s_phone_conflict"]
            ELSE IF users[i].phoneE164 # NoValue /\ users[i].phoneE164 # proc[p].e164
            THEN Return(p, "error", "phone already registered to a different user")
            ELSE [proc[p] EXCEPT !.pc = "s_update_user", !.sysId = users[i].sysId,
                                 !.setPhone = (users[i].phoneE164 = NoValue)]]
    /\ UNCHANGED <<users, surveys, quiz_results, pre, outboxVars, edgeVars>>

\* A backfill that would stamp the identity anew.
UpdatesRestamp(p, doc) ==
    [doc EXCEPT !.name = proc[p].name, !.createdAt = NoDate,
                !.phoneE164 = IF proc[p].setPhone THEN proc[p].e164 ELSE @]

\* The $set of the backfill update_one.
Updates(p, doc) ==
    [doc EXCEPT !.name = proc[p].name,
                !.company = IF proc[p].company # NoValue THEN proc[p].company ELSE @,
                !.phoneE164 = IF proc[p].setPhone THEN proc[p].e164 ELSE @]

\* try: users.update_one({"qrId": qr_id}, {"$set": updates})
\* except DuplicateKeyError: pass;  return {"sysId": existing_by_qr["sysId"], ...}
SurveyUpdateUser(p) ==
    /\ proc[p].pc = "s_update_user"
    /\ LET i == find_one(users, "qrId", proc[p].qr)
           new == Updates(p, users[i])
           dupl == \E k \in UsersUniqueKeys, j \in 1..Len(users) :
                      j # i /\ new[k] # users[i][k] /\ users[j][k] = new[k]
       IN IF i = 0
          THEN /\ proc' = [proc EXCEPT ![p].pc = "s_insert_survey"]
               /\ UNCHANGED users
          ELSE IF dupl
          THEN /\ proc' = [proc EXCEPT ![p].pc = "s_insert_survey",
                                       ![p].dup = "phoneE164",
                                       ![p].dupOp = "update"]
               /\ UNCHANGED users
          ELSE /\ users' = [users EXCEPT ![i] = new]
               /\ proc' = [proc EXCEPT ![p].pc = "s_insert_survey"]
    /\ UNCHANGED <<surveys, quiz_results, pre, outboxVars, edgeVars>>

\* The identity document both creators insert.
UserDoc(p, sys_id, now) ==
    [sysId |-> sys_id, qrId |-> proc[p].qr, name |-> proc[p].name,
     company |-> proc[p].company, phoneE164 |-> proc[p].e164,
     totalQuizzes |-> 0, totalCorrectAnswers |-> 0, createdAt |-> now]

\* The message both creators derive from str(e) of a DuplicateKeyError.
DuplicateMessage(k) ==
    IF k = "qrId" THEN "qrId already registered"
    ELSE IF k = "phoneE164" THEN "phone already registered"
    ELSE "Duplicate value"

\* The conflict would be looked for after the identity is stored.
SurveyPhoneConflictLate(p) ==
    /\ proc[p].pc = "s_phone_conflict"
    /\ IF find_one(users, "phoneE164", proc[p].e164) # 0
       THEN /\ \E sys_id \in new_uuid, now \in Noon :
                 users' = Append(users, UserDoc(p, sys_id, now))
            /\ proc' = [proc EXCEPT ![p] =
                          Return(p, "error", "phone already registered")]
       ELSE /\ proc' = [proc EXCEPT ![p].pc = "s_insert_user"]
            /\ UNCHANGED users
    /\ UNCHANGED <<surveys, quiz_results, pre, outboxVars, edgeVars>>

\* conflict = users.find_one({"phoneE164": phone_e164}); if conflict: raise ValueError
SurveyPhoneConflict(p) ==
    /\ proc[p].pc = "s_phone_conflict"
    /\ proc' = [proc EXCEPT ![p] =
          IF find_one(users, "phoneE164", proc[p].e164) # 0
          THEN Return(p, "error", "phone already registered")
          ELSE [proc[p] EXCEPT !.pc = "s_insert_user"]]
    /\ UNCHANGED <<users, surveys, quiz_results, pre, outboxVars, edgeVars>>

\* sys_id = new_uuid(); try: users.insert_one(user_doc)
\* except DuplicateKeyError: raise ValueError(msg)  (submit_survey returns it)
SurveyInsertUser(p) ==
    /\ proc[p].pc = "s_insert_user"
    /\ \E sys_id \in new_uuid, now \in Noon :
         LET doc == UserDoc(p, sys_id, now)
             bad == Violated(users, UsersUniqueKeys, doc)
         IN IF bad # {}
            THEN /\ \E k \in bad :
                      proc' = [proc EXCEPT ![p] =
                                 [Return(p, "error", DuplicateMessage(k))
                                    EXCEPT !.dup = k, !.dupOp = "insert"]]
                 /\ UNCHANGED users
            ELSE /\ users' = Append(users, doc)
                 /\ proc' = [proc EXCEPT ![p].pc = "s_insert_survey",
                                         ![p].sysId = sys_id]
    /\ UNCHANGED <<surveys, quiz_results, pre, outboxVars, edgeVars>>

\* _today_utc_midnight(): datetime.combine(now.date(), time.min), `now` being
\* the instant the function reads.
_today_utc_midnight(now) == [day |-> now.day, hour |-> 0]

\* Everybody would be in the raffle.
raffle_eligibleAlways(interest) == interest = interest

\* raffle_eligible = payload.interest == "None"
raffle_eligible(interest) == interest = "None"

\* A survey that would not carry the sysId the resolver returned.
SurveyDocNoSysId(p, now, today) ==
    [sysId |-> -1, qrId |-> proc[p].qr, name |-> proc[p].name,
     company |-> proc[p].company, phoneE164 |-> proc[p].e164,
     interest |-> proc[p].interest,
     raffleEligible |-> raffle_eligible(proc[p].interest),
     raffleDate |-> IF raffle_eligible(proc[p].interest)
                    THEN _today_utc_midnight(today) ELSE NoDate,
     submittedAt |-> now]

\* survey_doc; `now` is the instant _utcnow() returned at line 328, `today` the
\* instant _today_utc_midnight() reads while the document is built.
SurveyDoc(p, now, today) ==
    [sysId |-> proc[p].sysId, qrId |-> proc[p].qr, name |-> proc[p].name,
     company |-> proc[p].company, phoneE164 |-> proc[p].e164,
     interest |-> proc[p].interest,
     raffleEligible |-> raffle_eligible(proc[p].interest),
     raffleDate |-> IF raffle_eligible(proc[p].interest)
                    THEN _today_utc_midnight(today) ELSE NoDate,
     submittedAt |-> now]

\* now = _utcnow(); survey_doc = {...}; surveys.insert_one(survey_doc)
SurveyInsert(p, clock) ==
    /\ proc[p].pc = "s_insert_survey"
    /\ proc[p].kind = "submit_survey"
    /\ \E now \in clock, today \in clock :
         /\ NotAfter(now, today)
         /\ surveys' = Append(surveys, SurveyDoc(p, now, today))
    /\ proc' = [proc EXCEPT ![p] = Return(p, "success", "Survey submitted successfully")]
    /\ UNCHANGED <<users, quiz_results, pre, outboxVars, edgeVars>>

\* ---- _get_or_create_user_by_qr called on its own ----

\* The names and companies a caller may supply for an identity that has others.
MoreNames == {"Ann", "Bob"}
MoreCompanies == {NoValue, "Acme", "Globex"}

\* A call of _get_or_create_user_by_qr(db, qr_id, name, company, ...), made when
\* no other request is in flight.
StartResolve(p) ==
    /\ CanStart(p, TRUE)
    /\ \E qr \in QrIds, cc \in PhoneCountryCodes, num \in PhoneNumbers,
          name \in MoreNames, company \in MoreCompanies :
         proc' = [proc EXCEPT ![p] =
                    [IdleProc EXCEPT !.pc = "s_find_user", !.kind = "resolve",
                                     !.qr = qr, !.e164 = _to_e164(cc, num),
                                     !.name = name, !.company = company]]
    /\ UNCHANGED <<users, surveys, quiz_results, outboxVars, edgeVars>>

\* return {"sysId": ..., "qrId": qr_id}
ResolveReturn(p) ==
    /\ proc[p].pc = "s_insert_survey"
    /\ proc[p].kind = "resolve"
    /\ proc' = [proc EXCEPT ![p] = Return(p, "success", NoValue)]
    /\ UNCHANGED <<users, surveys, quiz_results, pre, outboxVars, edgeVars>>

\* ---- register_user (src/app/routers/users.py) ----

StartRegisterUser(p, seq) ==
    /\ CanStart(p, seq)
    /\ \E qr \in QrIds, cc \in PhoneCountryCodes, num \in PhoneNumbers,
          name \in Names, company \in Companies :
         proc' = [proc EXCEPT ![p] =
                    [IdleProc EXCEPT !.pc = "r_check_qr", !.kind = "register_user",
                                     !.qr = qr, !.e164 = _to_e164(cc, num),
                                     !.name = name, !.company = company]]
    /\ UNCHANGED <<users, surveys, quiz_results, outboxVars, edgeVars>>

\* if await users.find_one({"qrId": ...}): return error
RegisterCheckQr(p) ==
    /\ proc[p].pc = "r_check_qr"
    /\ proc' = [proc EXCEPT ![p] =
          IF find_one(users, "qrId", proc[p].qr) # 0
          THEN Return(p, "error", "qrId already registered")
          ELSE [proc[p] EXCEPT !.pc = "r_check_phone"]]
    /\ UNCHANGED <<users, surveys, quiz_results, pre, outboxVars, edgeVars>>

\* if await users.find_one({"phoneE164": e164}): return error
RegisterCheckPhone(p) ==
    /\ proc[p].pc = "r_check_phone"
    /\ proc' = [proc EXCEPT ![p] =
          IF find_one(users, "phoneE164", proc[p].e164) # 0
          THEN Return(p, "error", "phone already registered")
          ELSE [proc[p] EXCEPT !.pc = "r_insert"]]
    /\ UNCHANGED <<users, surveys, quiz_results, pre, outboxVars, edgeVars>>

\* try: users.insert_one(doc) except DuplicateKeyError: return error
RegisterInsert(p) ==
    /\ proc[p].pc = "r_insert"
    /\ \E sys_id \in new_uuid, now \in Noon :
         LET doc == UserDoc(p, sys_id, now)
             bad == Violated(users, UsersUniqueKeys, doc)
         IN IF bad # {}
            THEN /\ \E k \in bad :
                      proc' = [proc EXCEPT ![p] =
                                 [Return(p, "error", DuplicateMessage(k))
                                    EXCEPT !.dup = k, !.dupOp = "insert"]]
                 /\ UNCHANGED users
            ELSE /\ users' = Append(users, doc)
                 /\ proc' = [proc EXCEPT ![p] =
                               [Return(p, "success", "User created successfully")
                                  EXCEPT !.sysId = sys_id]]
    /\ UNCHANGED <<surveys, quiz_results, pre, outboxVars, edgeVars>>

\* ---- submit_quiz (src/app/routers/quiz.py) ----

\* History: what the request that ran immediately before this one answered, when
\* that was a validate_quiz_eligibility for the same qrId.
Told(qr) ==
    IF /\ pre.who \in Procs
       /\ proc[pre.who].kind = "validate_quiz_eligibility"
       /\ proc[pre.who].qr = qr
    THEN proc[pre.who].eligible ELSE NoValue

StartSubmitQuiz(p, seq) ==
    /\ CanStart(p, seq)
    /\ \E qr \in QrIds, correct \in CorrectAnswers :
         proc' = [proc EXCEPT ![p] =
                    [IdleProc EXCEPT !.pc = "q_find_user", !.kind = "submit_quiz",
                                     !.qr = qr, !.correct = correct,
                                     !.told = IF seq THEN Told(qr) ELSE NoValue]]
    /\ UNCHANGED <<users, surveys, quiz_results, outboxVars, edgeVars>>

\* A handler without the `if not user` return.
UserMissingNever(i) == FALSE

\* `if not user`
UserMissing(i) == i = 0

\* user = users.find_one({"qrId": qr}); if not user: return error
QuizFindUser(p) ==
    /\ proc[p].pc = "q_find_user"
    /\ LET i == find_one(users, "qrId", proc[p].qr)
       IN proc' = [proc EXCEPT ![p] =
            IF UserMissing(i)
            THEN Return(p, "error", "User not found for the provided qrId")
            ELSE [proc[p] EXCEPT !.pc = "q_already",
                                 !.sysId = IF i = 0 THEN -1 ELSE users[i].sysId]]
    /\ UNCHANGED <<users, surveys, quiz_results, pre, outboxVars, edgeVars>>

\* already = quizzes.find_one({"qrId": qr}); if already: return error
QuizAlready(p) ==
    /\ proc[p].pc = "q_already"
    /\ proc' = [proc EXCEPT ![p] =
          IF find_one(quiz_results, "qrId", proc[p].qr) # 0
          THEN Return(p, "error", "Quiz already submitted for this QR")
          ELSE [proc[p] EXCEPT !.pc = "q_insert"]]
    /\ UNCHANGED <<users, surveys, quiz_results, pre, outboxVars, edgeVars>>

\* quizzes.insert_one({...}): no try around it, a DuplicateKeyError leaves the handler
QuizInsert(p) ==
    /\ proc[p].pc = "q_insert"
    /\ LET doc == [sysId |-> proc[p].sysId, qrId |-> proc[p].qr,
                   correctAnswers |-> proc[p].correct]
       IN IF Violated(quiz_results, QuizUniqueKeys, doc) # {}
          THEN /\ proc' = [proc EXCEPT ![p] =
                             [Raise(p, "DuplicateKeyError")
                                EXCEPT !.dup = "qrId", !.dupOp = "insert"]]
               /\ UNCHANGED quiz_results
          ELSE /\ quiz_results' = Append(quiz_results, doc)
               /\ proc' = [proc EXCEPT ![p].pc = "q_update_user"]
    /\ UNCHANGED <<users, surveys, pre, outboxVars, edgeVars>>

\* An $inc that leaves totalCorrectAnswers out.
QuizIncOnlyCount(doc, correct) ==
    [doc EXCEPT !.totalQuizzes = @ + 1]

\* An $inc that counts every quiz as one correct answer.
QuizIncByOne(doc, correct) ==
    [doc EXCEPT !.totalQuizzes = @ + 1, !.totalCorrectAnswers = @ + 1]

\* The $inc of the counter update.
QuizInc(doc, correct) ==
    [doc EXCEPT !.totalQuizzes = @ + 1, !.totalCorrectAnswers = @ + correct]

\* users.update_one({"qrId": qr}, {"$inc": ..., "$set": ...}); return success
QuizUpdateUser(p) ==
    /\ proc[p].pc = "q_update_user"
    /\ LET i == find_one(users, "qrId", proc[p].qr)
       IN users' = IF i = 0 THEN users
                   ELSE [users EXCEPT ![i] = QuizInc(@, proc[p].correct)]
    /\ proc' = [proc EXCEPT ![p] = Return(p, "success", "Quiz submitted successfully")]
    /\ UNCHANGED <<surveys, quiz_results, pre, outboxVars, edgeVars>>

\* validate_quiz_eligibility(qrId): existing = quiz_results.find_one({"qrId": qr});
\* eligible = existing is None. One store call, made when no other request is in
\* flight; the response holds eligible as "true" or "false".
validate_quiz_eligibility(p) ==
    /\ CanStart(p, TRUE)
    /\ \E qr \in QrIds :
         proc' = [proc EXCEPT ![p] =
            [IdleProc EXCEPT
               !.pc = "done", !.kind = "validate_quiz_eligibility", !.qr = qr,
               !.status = "success",
               !.eligible = IF find_one(quiz_results, "qrId", qr) = 0
                            THEN "true" ELSE "false"]]
    /\ UNCHANGED <<users, surveys, quiz_results, outboxVars, edgeVars>>

(***************************************************************************)
(* src/app/middleware/auth.py and src/app/core/config.py                   *)
(*                                                                         *)
(* A path is the sequence of its segments: "/docs/index.html" is           *)
(* <<"docs", "index.html">>, "/docs/" is <<"docs", "">>.                   *)
(***************************************************************************)
HEADER_NAME == "x-api-key"

\* The path parameters of route templates.
Placeholders == {"{qrId}"}

Paths ==
    {<<"healthz">>, <<"docs", "index.html">>, <<"docsx">>,
     <<"api", "users", "register">>,
     <<"api", "users", "by-qr", "QR-1">>, <<"api", "users", "by-qr", "">>}

Methods == {"GET", "POST", "OPTIONS"}
ScopeTypes == {"http", "websocket"}
HeaderValues == {"secret", "wrong", ""}

\* The headers a request may carry: the key under the name a client sends it
\* with, and one other header.
Headers ==
    [k : {"X-API-Key"}, v : HeaderValues] \cup {[k |-> "accept", v |-> "wrong"]}

\* get_settings().API_KEY: os.getenv("API_KEY", "").
ApiKeys == {"secret", ""}

\* collect_public_paths(app): the templates of the endpoints marked public.
PublicPathSets == {{}, {<<"api", "users", "by-qr", "{qrId}">>}}

\* Header names would be compared as sent.
lowerNot(k) == k

\* str.lower() on the header names of the model.
lower(k) == IF k = "X-API-Key" THEN "x-api-key" ELSE k

\* _template_to_regex(t).match(path): "{...}" becomes [^/]+, anchored at both
\* ends.
_template_to_regex(template, path) ==
    /\ Len(path) = Len(template)
    /\ \A i \in 1..Len(template) :
         IF template[i] \in Placeholders THEN path[i] # ""
                                         ELSE path[i] = template[i]

always_public_exact == {<<"redoc">>, <<"healthz">>, <<"docs">>}

\* self._public_patterns
_public_patterns == settings.public_paths \cup always_public_exact

\* path.startswith("/docs/")
_public_prefixes(path) == Len(path) >= 2 /\ path[1] = "docs"

\* any(p.match(path) ...) or any(path.startswith(prefix) ...)
IsPublic(path) ==
    \/ \E t \in _public_patterns : _template_to_regex(t, path)
    \/ _public_prefixes(path)

\* headers = {k.decode().lower(): v.decode() ...}; headers.get(HEADER_NAME):
\* of several headers of one name the dict keeps the last.
provided(headers) ==
    LET at == {i \in 1..Len(headers) : lower(headers[i].k) = HEADER_NAME}
    IN  IF at = {} THEN NoValue
        ELSE headers[CHOOSE i \in at : \A j \in at : j <= i].v

\* ApiKeyAuthMiddleware.__call__: "app" when the request is handed to
\* self.app, "401" when the middleware answers it.
Dispatch(type, path, method, headers) ==
    IF type # "http" THEN "app"
    ELSE IF method = "OPTIONS" THEN "app"
    ELSE IF IsPublic(path) THEN "app"
    ELSE IF \/ provided(headers) = NoValue
            \/ provided(headers) = ""
            \/ provided(headers) # settings.API_KEY THEN "401"
    ELSE "app"

NoRequest ==
    [type |-> NoValue, path |-> <<>>, method |-> NoValue, headers |-> <<>>,
     outcome |-> NoValue]

HeaderLists ==
    UNION {[1..n -> Headers] : n \in 0..MaxHeaders}

\* One request through the middleware.
Request ==
    /\ \E type \in ScopeTypes, path \in Paths, method \in Methods,
          headers \in HeaderLists :
         http' = [type |-> type, path |-> path, method |-> method,
                  headers |-> headers,
                  outcome |-> Dispatch(type, path, method, headers)]
    /\ UNCHANGED <<settings, keyVars, dbVars, outboxVars, apiVars>>

(***************************************************************************)
(* src/app/routers/admin.py                                                *)
(***************************************************************************)
\* The values secrets.token_urlsafe(24) may return.
Plains == {"k1", "k2", "k3"}

Labels == {NoValue, "booth"}

\* The hash would be the key itself.
_sha256_hexPlain(value) == value

\* hashlib.sha256(value).hexdigest(), taken as injective and as never equal to
\* its argument.
_sha256_hex(value) == "sha256:" \o value

IdleGen == [pc |-> "idle", left |-> 0, label |-> NoValue, out |-> {}, calls |-> 0]

NoValidation == [key |-> NoValue, status |-> NoValue]

\* generate_keys entry: keys = db["keys"]; out = []; for _ in range(count)
StartGenerateKeys(count, label) ==
    /\ gen.pc = "idle"
    /\ gen.calls < MaxCalls
    /\ gen' = [pc |-> "loop", left |-> count, label |-> label, out |-> {},
               calls |-> gen.calls + 1]
    /\ UNCHANGED <<keys, issued, validated, authVars, dbVars, outboxVars, apiVars>>

\* uq_hash of db.py: no two documents with one hash.
HashTaken(h) == \E i \in 1..Len(keys) : keys[i].hash = h

\* One iteration: plain = _new_plain_key(); try insert_one(doc), out.append;
\* except Exception: continue. The insert raises on a duplicate hash and may
\* raise on a store failure.
GenerateOne ==
    /\ gen.pc = "loop"
    /\ gen.left > 0
    /\ \E plain \in Plains, fails \in BOOLEAN :
         LET doc == [hash |-> _sha256_hex(plain), label |-> gen.label]
         IN  IF HashTaken(doc.hash) \/ fails
             THEN /\ gen' = [gen EXCEPT !.left = @ - 1]
                  /\ UNCHANGED keys
             ELSE /\ keys' = Append(keys, doc)
                  /\ gen' = [gen EXCEPT !.left = @ - 1,
                                        !.out = @ \cup {plain}]
    /\ UNCHANGED <<issued, validated, authVars, dbVars, outboxVars, apiVars>>

\* return {"status": "success", ..., "data": out}
GenerateReturn ==
    /\ gen.pc = "loop"
    /\ gen.left = 0
    /\ issued' = issued \cup gen.out
    /\ gen' = [gen EXCEPT !.pc = "idle"]
    /\ UNCHANGED <<keys, validated, authVars, dbVars, outboxVars, apiVars>>

\* find_one({"hash": h}) on keys
KeyFound(h) == \E i \in 1..Len(keys) : keys[i].hash = h

\* validate_key: h = _sha256_hex(payload.key); keys.find_one({"hash": h})
validate_key(key) ==
    /\ validated' = [key |-> key,
                     status |-> IF KeyFound(_sha256_hex(key))
                                THEN "success" ELSE "error"]
    /\ UNCHANGED <<keys, gen, issued, authVars, dbVars, outboxVars, apiVars>>

(***************************************************************************)
(* src/app/dependencies/db.py: connect_to_mongo and get_db                 *)
(*                                                                         *)
(* A client is the number of its construction (the n-th AsyncIOMotorClient *)
(* built by the process); the database handle client[MONGO_DB] is written  *)
(* with the number of its client. A MONGO_URI is the pair of its scheme    *)
(* and the rest.                                                           *)
(***************************************************************************)
None == 0

MongoUris ==
    {<<"mongodb://", "db:27017">>, <<"mongodb+srv://", "db.example.net">>,
     <<"", "db:27017">>}

IdleConn == [pc |-> "idle", ret |-> <<None, None>>, exc |-> NoValue]

\* if _client is not None and _db is not None
Connected == _client # None /\ _db # None

\* settings.MONGO_URI.startswith(("mongodb://", "mongodb+srv://"))
startswith(uri) == uri[1] \in {"mongodb://", "mongodb+srv://"}

\* get_db -> connect_to_mongo, up to its first await: the guard, the
\* MONGO_URI test, _client = AsyncIOMotorClient(...), then the ping is issued.
ConnectEnter(c) ==
    /\ conn[c].pc = "idle"
    /\ IF Connected
       THEN /\ conn' = [conn EXCEPT ![c].pc = "done", ![c].ret = <<_client, _db>>]
            /\ UNCHANGED <<_client, clients>>
       ELSE IF ~startswith(settings.MONGO_URI)
       THEN /\ conn' = [conn EXCEPT ![c].pc = "raised", ![c].exc = "RuntimeError"]
            /\ UNCHANGED <<_client, clients>>
       ELSE /\ clients' = clients + 1
            /\ _client' = clients + 1
            /\ conn' = [conn EXCEPT ![c].pc = "ping"]
    /\ UNCHANGED <<_db, authVars, keyVars, outboxVars, apiVars>>

\* await _client.admin.command("ping") completes: it raises, or
\* _db = _client[settings.MONGO_DB] with the _client of this moment; without
\* DB_CREATE_INDEXES the function returns the two globals at once.
Ping(c) ==
    /\ conn[c].pc = "ping"
    /\ \E ok \in BOOLEAN :
         IF ~ok
         THEN /\ conn' = [conn EXCEPT ![c].pc = "raised", ![c].exc = "PyMongoError"]
              /\ UNCHANGED _db
         ELSE /\ _db' = _client
              /\ conn' = [conn EXCEPT ![c] =
                    IF settings.DB_CREATE_INDEXES
                    THEN [@ EXCEPT !.pc = "indexes"]
                    ELSE [@ EXCEPT !.pc = "done", !.ret = <<_client, _client>>]]
    /\ UNCHANGED <<_client, clients, authVars, keyVars, outboxVars, apiVars>>

\* await _ensure_indexes(_db) completes (it swallows every PyMongoError);
\* return _client, _db
EnsureIndexes(c) ==
    /\ conn[c].pc = "indexes"
    /\ conn' = [conn EXCEPT ![c].pc = "done", ![c].ret = <<_client, _db>>]
    /\ UNCHANGED <<_client, _db, clients, authVars, keyVars, outboxVars, apiVars>>

\* The state after construction: the request handlers idle over a store that
\* is empty or holds one identity of the earlier generation.
Init ==
    /\ outbox = <<>>
    /\ outbox_log = <<>>
    /\ disp = [d \in Dispatchers |-> IdleFrame]
    /\ claimCount = <<>>
    /\ handled = <<>>
    /\ raised = {}
    /\ inserted_id = NoValue
    /\ faults = 0
    /\ users \in {<<>>, <<LegacyUser>>}
    /\ surveys = <<>>
    /\ quiz_results = <<>>
    /\ proc = [p \in Procs |-> IdleProc]
    /\ pre = Snapshot(0)
    /\ settings = [API_KEY |-> "secret", public_paths |-> {},
                   MONGO_URI |-> <<"mongodb://", "db:27017">>,
                   DB_CREATE_INDEXES |-> TRUE]
    /\ http = NoRequest
    /\ keys = <<>>
    /\ gen = IdleGen
    /\ issued = {}
    /\ validated = NoValidation
    /\ _client = None
    /\ _db = None
    /\ clients = 0
    /\ conn = [c \in Callers |-> IdleConn]

\* Concurrent requests: any interleaving of the handlers' store calls.
Next ==
    \/ \E p \in Procs : StartSubmitSurvey(p, FALSE, {"None"})
    \/ \E p \in Procs : SurveyExists(p)
    \/ \E p \in Procs : SurveyFindUser(p)
    \/ \E p \in Procs : SurveyUpdateUser(p)
    \/ \E p \in Procs : SurveyPhoneConflict(p)
    \/ \E p \in Procs : SurveyInsertUser(p)
    \/ \E p \in Procs : SurveyInsert(p, Noon)
    \/ \E p \in Procs : StartRegisterUser(p, FALSE)
    \/ \E p \in Procs : RegisterCheckQr(p)
    \/ \E p \in Procs : RegisterCheckPhone(p)
    \/ \E p \in Procs : RegisterInsert(p)
    \/ \E p \in Procs : StartSubmitQuiz(p, FALSE)
    \/ \E p \in Procs : QuizFindUser(p)
    \/ \E p \in Procs : QuizAlready(p)
    \/ \E p \in Procs : QuizInsert(p)
    \/ \E p \in Procs : QuizUpdateUser(p)

Spec == Init /\ [][Next]_vars

\* Sequential requests: a request starts only when none is in flight.
NextSeq ==
    \/ \E p \in Procs : StartSubmitSurvey(p, TRUE, Interests)
    \/ \E p \in Procs : SurveyExists(p)
    \/ \E p \in Procs : SurveyFindUser(p)
    \/ \E p \in Procs : SurveyUpdateUser(p)
    \/ \E p \in Procs : SurveyPhoneConflict(p)
    \/ \E p \in Procs : SurveyInsertUser(p)
    \/ \E p \in Procs : SurveyInsert(p, Clock)
    \/ \E p \in Procs : StartRegisterUser(p, TRUE)
    \/ \E p \in Procs : RegisterCheckQr(p)
    \/ \E p \in Procs : RegisterCheckPhone(p)
    \/ \E p \in Procs : RegisterInsert(p)
    \/ \E p \in Procs : StartSubmitQuiz(p, TRUE)
    \/ \E p \in Procs : QuizFindUser(p)
    \/ \E p \in Procs : QuizAlready(p)
    \/ \E p \in Procs : QuizInsert(p)
    \/ \E p \in Procs : QuizUpdateUser(p)

SpecSeq == Init /\ [][NextSeq]_vars

\* The outbox alone: producers and dispatchers over an empty queue, no request
\* handler running.
InitOutbox ==
    /\ outbox = <<>>
    /\ outbox_log = <<>>
    /\ disp = [d \in Dispatchers |-> IdleFrame]
    /\ claimCount = <<>>
    /\ handled = <<>>
    /\ raised = {}
    /\ inserted_id = NoValue
    /\ faults = 0
    /\ users = <<>>
    /\ surveys = <<>>
    /\ quiz_results = <<>>
    /\ proc = [p \in Procs |-> IdleProc]
    /\ pre = Snapshot(0)
    /\ settings = [API_KEY |-> "secret", public_paths |-> {},
                   MONGO_URI |-> <<"mongodb://", "db:27017">>,
                   DB_CREATE_INDEXES |-> TRUE]
    /\ http = NoRequest
    /\ keys = <<>>
    /\ gen = IdleGen
    /\ issued = {}
    /\ validated = NoValidation
    /\ _client = None
    /\ _db = None
    /\ clients = 0
    /\ conn = [c \in Callers |-> IdleConn]

NextOutbox ==
    \/ \E t \in Topics : enqueue_outbox(t, FALSE)
    \/ \E d \in Dispatchers, l \in 1..MaxLimit : StartBatch(d, l, FALSE)
    \/ \E d \in Dispatchers : ClaimNext(d)
    \/ \E d \in Dispatchers : InvokeHandler(d)
    \/ \E d \in Dispatchers : MarkDone(d)
    \/ \E d \in Dispatchers : LogDone(d)
    \/ \E d \in Dispatchers : MarkFailed(d)
    \/ \E d \in Dispatchers : LogFailed(d)
    \/ \E d \in Dispatchers : Crash(d)

SpecOutbox == InitOutbox /\ [][NextOutbox]_vars

\* Sequential calls of _get_or_create_user_by_qr with varying names and
\* companies, over a store that is empty or holds one earlier identity.
NextResolve ==
    \/ \E p \in Procs : StartResolve(p)
    \/ \E p \in Procs : SurveyFindUser(p)
    \/ \E p \in Procs : SurveyUpdateUser(p)
    \/ \E p \in Procs : SurveyPhoneConflict(p)
    \/ \E p \in Procs : SurveyInsertUser(p)
    \/ \E p \in Procs : ResolveReturn(p)

SpecResolve == Init /\ [][NextResolve]_vars

\* The outbox with one caller: enqueue_outbox and process_outbox_batch calls run
\* one after the other.
NextOutboxSeq ==
    \/ \E t \in Topics : enqueue_outbox(t, TRUE)
    \/ \E d \in Dispatchers, l \in 1..MaxLimit : StartBatch(d, l, TRUE)
    \/ \E d \in Dispatchers : ClaimNext(d)
    \/ \E d \in Dispatchers : InvokeHandler(d)
    \/ \E d \in Dispatchers : MarkDone(d)
    \/ \E d \in Dispatchers : LogDone(d)
    \/ \E d \in Dispatchers : MarkFailed(d)
    \/ \E d \in Dispatchers : LogFailed(d)
    \/ \E d \in Dispatchers : Crash(d)

SpecOutboxSeq == InitOutbox /\ [][NextOutboxSeq]_vars

\* The outbox drained by a dispatcher process that does not crash: producers
\* enqueue (at most MaxEvents events), process_outbox_batch is called again and
\* again, every call goes on step by step and handlers terminate. Store calls
\* may still raise.
NextOutboxLive ==
    \/ \E t \in Topics : enqueue_outbox(t, FALSE)
    \/ \E d \in Dispatchers, l \in 1..MaxLimit : StartBatch(d, l, FALSE)
    \/ \E d \in Dispatchers : ClaimNext(d)
    \/ \E d \in Dispatchers : InvokeHandler(d)
    \/ \E d \in Dispatchers : MarkDone(d)
    \/ \E d \in Dispatchers : LogDone(d)
    \/ \E d \in Dispatchers : MarkFailed(d)
    \/ \E d \in Dispatchers : LogFailed(d)

FairOutbox ==
    \A d \in Dispatchers :
      /\ WF_vars(\E l \in 1..MaxLimit : StartBatch(d, l, FALSE))
      /\ WF_vars(ClaimNext(d))
      /\ WF_vars(InvokeHandler(d))
      /\ WF_vars(MarkDone(d))
      /\ WF_vars(LogDone(d))
      /\ WF_vars(MarkFailed(d))
      /\ WF_vars(LogFailed(d))

SpecOutboxLive == InitOutbox /\ [][NextOutboxLive]_vars /\ FairOutbox

\* The quiz desk: registrations, eligibility checks and quiz submissions, one
\* request after the other.
NextQuiz ==
    \/ \E p \in Procs : StartRegisterUser(p, TRUE)
    \/ \E p \in Procs : RegisterCheckQr(p)
    \/ \E p \in Procs : RegisterCheckPhone(p)
    \/ \E p \in Procs : RegisterInsert(p)
    \/ \E p \in Procs : validate_quiz_eligibility(p)
    \/ \E p \in Procs : StartSubmitQuiz(p, TRUE)
    \/ \E p \in Procs : QuizFindUser(p)
    \/ \E p \in Procs : QuizAlready(p)
    \/ \E p \in Procs : QuizInsert(p)
    \/ \E p \in Procs : QuizUpdateUser(p)

SpecQuiz == Init /\ [][NextQuiz]_vars

\* The middleware in front of the application, for every configuration.
InitAuth ==
    /\ outbox = <<>>
    /\ outbox_log = <<>>
    /\ disp = [d \in Dispatchers |-> IdleFrame]
    /\ claimCount = <<>>
    /\ handled = <<>>
    /\ raised = {}
    /\ inserted_id = NoValue
    /\ faults = 0
    /\ users = <<>>
    /\ surveys = <<>>
    /\ quiz_results = <<>>
    /\ proc = [p \in Procs |-> IdleProc]
    /\ pre = Snapshot(0)
    /\ settings \in [API_KEY : ApiKeys, public_paths : PublicPathSets,
                      MONGO_URI : {<<"mongodb://", "db:27017">>},
                      DB_CREATE_INDEXES : {TRUE}]
    /\ http = NoRequest
    /\ keys = <<>>
    /\ gen = IdleGen
    /\ issued = {}
    /\ validated = NoValidation
    /\ _client = None
    /\ _db = None
    /\ clients = 0
    /\ conn = [c \in Callers |-> IdleConn]

NextAuth == Request

SpecAuth == InitAuth /\ [][NextAuth]_vars

\* The first get_db calls of a process, for every configuration.
InitConnect ==
    /\ outbox = <<>>
    /\ outbox_log = <<>>
    /\ disp = [d \in Dispatchers |-> IdleFrame]
    /\ claimCount = <<>>
    /\ handled = <<>>
    /\ raised = {}
    /\ inserted_id = NoValue
    /\ faults = 0
    /\ users = <<>>
    /\ surveys = <<>>
    /\ quiz_results = <<>>
    /\ proc = [p \in Procs |-> IdleProc]
    /\ pre = Snapshot(0)
    /\ settings \in [API_KEY : {"secret"}, public_paths : {{}},
                      MONGO_URI : MongoUris, DB_CREATE_INDEXES : BOOLEAN]
    /\ http = NoRequest
    /\ keys = <<>>
    /\ gen = IdleGen
    /\ issued = {}
    /\ validated = NoValidation
    /\ _client = None
    /\ _db = None
    /\ clients = 0
    /\ conn = [c \in Callers |-> IdleConn]

NextConnect ==
    \/ \E c \in Callers : ConnectEnter(c)
    \/ \E c \in Callers : Ping(c)
    \/ \E c \in Callers : EnsureIndexes(c)

SpecConnect == InitConnect /\ [][NextConnect]_vars

\* The access keys: generate_keys calls one after the other, validate_key calls
\* at any moment.
NextKeys ==
    \/ \E count \in 1..MaxCount, label \in Labels : StartGenerateKeys(count, label)
    \/ GenerateOne
    \/ GenerateReturn
    \/ \E key \in Plains \cup {_sha256_hex(k) : k \in Plains} : validate_key(key)

SpecKeys == InitOutbox /\ [][NextKeys]_vars

(***************************************************************************)
(* C1: an outbox event returned by one claim is never returned by another  *)
(* claim: each event is claimed at most once over its whole life, and no   *)
(* two dispatchers ever hold the same event.                               *)
(***************************************************************************)
C1_ClaimedAtMostOnce ==
    /\ \A i \in 1..Len(outbox) : claimCount[i] <= 1
    /\ \A d1, d2 \in Dispatchers :
         (d1 # d2 /\ disp[d1].evt # 0 /\ disp[d1].pc # "idle"
                  /\ disp[d2].pc # "idle") => disp[d1].evt # disp[d2].evt

\* Two dispatchers hold two different claimed events while a third event has
\* already been claimed and finished.
C1_Witness ==
    /\ disp[1].pc = "handler" /\ disp[2].pc = "handler"
    /\ disp[1].evt # disp[2].evt
    /\ \E i \in 1..Len(outbox) :
         outbox[i].status \in {STATUS_DONE, STATUS_FAILED} /\ claimCount[i] = 1

(***************************************************************************)
(* Helpers of the properties below.                                        *)
(***************************************************************************)
Count(coll, key, value) ==
    Cardinality({i \in 1..Len(coll) : coll[i][key] = value})

RECURSIVE SumCorrect(_, _)
SumCorrect(coll, qr) ==
    IF coll = <<>> THEN 0
    ELSE (IF Head(coll).qrId = qr THEN Head(coll).correctAnswers ELSE 0)
         + SumCorrect(Tail(coll), qr)

RECURSIVE SumPending(_)
SumPending(ps) ==
    IF ps = {} THEN 0
    ELSE LET p == CHOOSE q \in ps : TRUE
         IN proc[p].correct + SumPending(ps \ {p})

Done(p, kind) == proc[p].kind = kind /\ proc[p].pc = "done"

(***************************************************************************)
(* C2: in every reachable state, under any interleaving of submit_survey   *)
(* and register_user, users holds at most one identity per qrId and no two *)
(* identities share a sysId.                                               *)
(***************************************************************************)
C2_UniqueQrIdAndSysId ==
    \A i, j \in 1..Len(users) :
        i # j => /\ users[i].qrId # users[j].qrId
                 /\ users[i].sysId # users[j].sysId

\* Two identities exist, one creator lost on the qrId index and another on
\* the sysId index.
C2_Witness ==
    /\ Len(users) >= 2
    /\ \E p \in Procs : proc[p].pc = "done" /\ proc[p].dup \in {"qrId", "sysId"}
                        /\ proc[p].dupOp = "insert"

(***************************************************************************)
(* C3: a resolve-or-create call whose insert loses the race on the qrId    *)
(* unique index re-reads the identity by qrId and returns the winner's     *)
(* sysId as a success, so that every concurrent call for the same          *)
(* scanToken succeeds with the sysId of the one identity created.          *)
(***************************************************************************)
C3_RaceLoserAdoptsWinner ==
    \A p \in Procs :
        (/\ Done(p, "submit_survey")
         /\ proc[p].dupOp = "insert" /\ proc[p].dup = "qrId"
         /\ find_one(users, "qrId", proc[p].qr) # 0)
        => /\ proc[p].status = "success"
           /\ proc[p].sysId = users[find_one(users, "qrId", proc[p].qr)].sysId

(***************************************************************************)
(* C4: no two identities have the same non-empty phoneE164, and every call *)
(* that would give an identity a phone already held by another identity    *)
(* (the phone unique index refuses its write) ends with an error outcome.  *)
(***************************************************************************)
C4_PhoneUniqueAndConflictFails ==
    /\ \A i, j \in 1..Len(users) :
          (i # j /\ users[i].phoneE164 # NoValue)
          => users[i].phoneE164 # users[j].phoneE164
    /\ \A p \in Procs :
          (proc[p].pc = "done" /\ proc[p].dup = "phoneE164")
          => proc[p].status = "error"

(***************************************************************************)
(* C5: in every reachable state, under any interleaving of submit_survey   *)
(* requests, surveys holds at most one survey per phoneE164.               *)
(***************************************************************************)
C5_OneSurveyPerPhone ==
    \A i, j \in 1..Len(surveys) :
        i # j => surveys[i].phoneE164 # surveys[j].phoneE164

C7_SequentialQuizTwice ==
    \A p \in Procs :
        (/\ pre.who = p /\ Done(p, "submit_quiz")
         /\ find_one(pre.users, "qrId", proc[p].qr) # 0)
        => LET i == find_one(pre.users, "qrId", proc[p].qr)
           IN IF find_one(pre.quiz_results, "qrId", proc[p].qr) = 0
              THEN /\ proc[p].status = "success"
                   /\ quiz_results = Append(pre.quiz_results,
                         [sysId |-> pre.users[i].sysId, qrId |-> proc[p].qr,
                          correctAnswers |-> proc[p].correct])
                   /\ users = [pre.users EXCEPT
                         ![i].totalQuizzes = @ + 1,
                         ![i].totalCorrectAnswers = @ + proc[p].correct]
              ELSE /\ proc[p].status = "error"
                   /\ proc[p].message = "Quiz already submitted for this QR"
                   /\ quiz_results = pre.quiz_results
                   /\ users = pre.users

\* The scenario of the spec: correctAnswers 5 was accepted, then 3 was rejected
\* and the counters still read 1 and 5.
C7_Witness ==
    \E p, q \in Procs :
        /\ pre.who = q /\ Done(q, "submit_quiz") /\ Done(p, "submit_quiz")
        /\ proc[p].qr = proc[q].qr
        /\ proc[p].status = "success" /\ proc[p].correct = 5
        /\ proc[q].status = "error" /\ proc[q].correct = 3
        /\ \E i \in 1..Len(users) :
              /\ users[i].qrId = proc[q].qr
              /\ users[i].totalQuizzes = 1 /\ users[i].totalCorrectAnswers = 5

(***************************************************************************)
(* C8: the first store call of submit_quiz, when it finds no identity for  *)
(* the qrId, ends the request with the not-found error and writes nothing: *)
(* users, quiz_results and surveys are unchanged by the call.              *)
(***************************************************************************)
C8_QuizWithoutIdentity ==
    [][\A p \in Procs :
          (/\ proc[p].pc = "q_find_user" /\ proc'[p].pc # "q_find_user"
           /\ find_one(users, "qrId", proc[p].qr) = 0)
          => /\ proc'[p].pc = "done"
             /\ proc'[p].status = "error"
             /\ proc'[p].message = "User not found for the provided qrId"
             /\ users' = users /\ quiz_results' = quiz_results
             /\ surveys' = surveys]_vars

\* A submit_quiz has returned not-found while the other qrId has an identity.
C8_Witness ==
    \E p \in Procs :
        /\ Done(p, "submit_quiz")
        /\ proc[p].message = "User not found for the provided qrId"
        /\ find_one(users, "qrId", proc[p].qr) = 0
        /\ Len(users) >= 1 /\ quiz_results = <<>>

PendingCount(qr) ==
    {p \in Procs : proc[p].kind = "submit_quiz" /\ proc[p].pc = "q_update_user"
                   /\ proc[p].qr = qr}

C10_DuplicateKeyIsStructuredError ==
    \A p \in Procs :
        (/\ proc[p].kind \in {"submit_quiz", "submit_survey"}
         /\ proc[p].pc = "done" /\ proc[p].dupOp = "insert")
        => /\ proc[p].status = "error"
           /\ proc[p].message # "DuplicateKeyError"

(***************************************************************************)
(* C11: an exception raised by the handler does not leave                  *)
(* process_outbox_batch. For every event the call claimed whose handler    *)
(* raised, once the iteration is over the event is FAILED with repr(e)     *)
(* recorded, outbox_log holds exactly one entry for it, a FAILED one with  *)
(* the same error, the call goes on, and when it returns it has run all    *)
(* its iterations (limit reached or a claim found nothing). Calls cut      *)
(* short by a store failure or a crash are outside the statement: a        *)
(* storage failure propagates to the caller.                               *)
(***************************************************************************)
LogEntries(i) == {k \in 1..Len(outbox_log) : outbox_log[k].outboxId = i}

Interrupted(d) == disp[d].ret \in {"raised", "crashed"}

InFlight(d, i) == disp[d].pc # "idle" /\ disp[d].evt = i

C11_HandlerExceptionContained ==
    \A d \in Dispatchers :
      /\ \A i \in disp[d].raisedOn :
           (~Interrupted(d) /\ ~InFlight(d, i)) =>
             /\ outbox[i].status = STATUS_FAILED
             /\ outbox[i].error = "HandlerError('boom')"
             /\ Cardinality(LogEntries(i)) = 1
             /\ \A k \in LogEntries(i) :
                  /\ outbox_log[k].status = STATUS_FAILED
                  /\ outbox_log[k].error = "HandlerError('boom')"
      /\ (disp[d].pc = "claim" /\ disp[d].raisedOn # {}) =>
           disp[d].iter + disp[d].done + disp[d].failed = disp[d].limit
      /\ (disp[d].ret = "returned" /\ disp[d].raisedOn # {}) =>
           \/ disp[d].done + disp[d].failed = disp[d].limit
           \/ disp[d].nclaims > Cardinality(disp[d].claimed)

\* A call with limit 2 has returned: the handler raised on the first event it
\* claimed, and the call went on to claim a second event and finish it DONE.
C11_Witness ==
    \E d \in Dispatchers :
      /\ disp[d].ret = "returned" /\ disp[d].limit = 2
      /\ disp[d].failed = 1 /\ disp[d].done = 1
      /\ \E i \in disp[d].raisedOn, j \in disp[d].claimed \ disp[d].raisedOn :
           \E k1 \in LogEntries(i), k2 \in LogEntries(j) : k1 < k2

(***************************************************************************)
(* C12: the status of an outbox event changes only PENDING -> PROCESSING,  *)
(* PROCESSING -> DONE or PROCESSING -> FAILED. DONE and FAILED are         *)
(* terminal: such an event never changes status again and is never         *)
(* claimed again, whatever enqueue and process_outbox_batch calls run,     *)
(* store-call failures inside process_outbox_batch included.               *)
(***************************************************************************)
Lifecycle ==
    {<<STATUS_PENDING, STATUS_PROCESSING>>,
     <<STATUS_PROCESSING, STATUS_DONE>>,
     <<STATUS_PROCESSING, STATUS_FAILED>>}

C12_StatusLifecycle ==
    [][\A i \in 1..Len(outbox) :
         /\ outbox'[i].status # outbox[i].status =>
              <<outbox[i].status, outbox'[i].status>> \in Lifecycle
         /\ outbox[i].status \in {STATUS_DONE, STATUS_FAILED} =>
              claimCount'[i] = claimCount[i]]_vars

(***************************************************************************)
(* C13: delivery is at-least-once, a crash of the dispatcher after the     *)
(* claim included: every enqueued event on which the handler has not yet   *)
(* been invoked can still get it from the process_outbox_batch calls that  *)
(* run afterwards. The handler is invoked only on the event a claim        *)
(* returned and a claim returns only PENDING events, so such an event is   *)
(* either PENDING or in the hands of a running call that is about to       *)
(* invoke the handler on it.                                               *)
(***************************************************************************)
AboutToHandle(i) ==
    \E d \in Dispatchers : disp[d].pc = "handler" /\ disp[d].evt = i

C13_AtLeastOnce ==
    \A i \in 1..Len(outbox) :
      handled[i] = 0 => (outbox[i].status = STATUS_PENDING \/ AboutToHandle(i))

(***************************************************************************)
(* C14: a process_outbox_batch call with limit L that runs with no         *)
(* concurrent producer or dispatcher on a queue holding P PENDING events   *)
(* and returns has claimed exactly min(L, P) events, all of them PENDING   *)
(* at entry, and leaves P - min(L, P) events PENDING; a call never issues  *)
(* more than L claims, and it issues no claim after one that found no      *)
(* PENDING event.                                                          *)
(***************************************************************************)
PendingIn(ob) == {i \in 1..Len(ob) : ob[i].status = STATUS_PENDING}

Returns(d) ==
    disp[d].pc # "idle" /\ disp'[d].pc = "idle" /\ disp'[d].ret = "returned"

C14_ClaimsMinOfLimitAndPending ==
    [][\A d \in Dispatchers :
         /\ disp'[d].nclaims <= disp'[d].limit
         /\ disp'[d].nclaims <= Cardinality(disp'[d].claimed) + 1
         /\ Returns(d) =>
              LET L == disp'[d].limit
                  P == Cardinality(PendingIn(disp'[d].start.outbox))
                  m == Min({L, P})
              IN  /\ Cardinality(disp'[d].claimed) = m
                  /\ disp'[d].claimed \subseteq PendingIn(disp'[d].start.outbox)
                  /\ Cardinality(PendingIn(outbox')) = P - m
                  /\ disp'[d].nclaims = IF P < L THEN m + 1 ELSE m]_vars

\* The scenario of the specification: three PENDING events, a call with limit 2
\* has returned with two events claimed and one left PENDING, and a later call
\* with limit 2 has claimed the remainder and stopped at the empty claim.
C14_Witness ==
    \E d1, d2 \in Dispatchers :
      /\ disp[d1].ret = "returned" /\ disp[d1].limit = 2
      /\ Cardinality(PendingIn(disp[d1].start.outbox)) = 3
      /\ Cardinality(disp[d1].claimed) = 2
      /\ disp[d2].ret = "returned" /\ disp[d2].limit = 2
      /\ Cardinality(PendingIn(disp[d2].start.outbox)) = 1
      /\ Cardinality(disp[d2].claimed) = 1 /\ disp[d2].nclaims = 2
      /\ PendingIn(outbox) = {}

(***************************************************************************)
(* C15: a process_outbox_batch call on a queue with no PENDING event       *)
(* returns {done: 0, failed: 0}, does not invoke the handler, and leaves   *)
(* outbox and outbox_log as it found them.                                 *)
(***************************************************************************)
C15_EmptyQueueNoOp ==
    [][\A d \in Dispatchers :
         (Returns(d) /\ PendingIn(disp'[d].start.outbox) = {}) =>
           /\ disp'[d].done = 0 /\ disp'[d].failed = 0
           /\ disp'[d].claimed = {}
           /\ handled' = disp'[d].start.handled
           /\ outbox' = disp'[d].start.outbox
           /\ outbox_log' = disp'[d].start.outbox_log]_vars

\* A call has returned {0, 0} after one empty claim on a queue that holds events,
\* none of them PENDING, and a log with entries; both are as the call found them.
C15_Witness ==
    \E d \in Dispatchers :
      /\ disp[d].ret = "returned" /\ disp[d].nclaims = 1 /\ disp[d].claimed = {}
      /\ disp[d].done = 0 /\ disp[d].failed = 0
      /\ Len(disp[d].start.outbox) >= 2 /\ PendingIn(disp[d].start.outbox) = {}
      /\ Len(disp[d].start.outbox_log) >= 2
      /\ outbox = disp[d].start.outbox /\ outbox_log = disp[d].start.outbox_log

(***************************************************************************)
(* C16: when a process_outbox_batch call has returned, every event it      *)
(* claimed is DONE or FAILED and outbox_log holds exactly one entry for    *)
(* the event, with the event's status. With a handler that has never       *)
(* raised (and no store failure or crash), once the calls have drained the *)
(* queue every enqueued event is DONE and has exactly one log entry, a     *)
(* DONE one.                                                               *)
(***************************************************************************)
LoggedOnceAs(i, status) ==
    /\ Cardinality(LogEntries(i)) = 1
    /\ \A k \in LogEntries(i) : outbox_log[k].status = status

C16_ClaimedEventsSettledAndLogged ==
    /\ \A d \in Dispatchers :
         disp[d].ret = "returned" =>
           \A i \in disp[d].claimed :
             /\ outbox[i].status \in {STATUS_DONE, STATUS_FAILED}
             /\ LoggedOnceAs(i, outbox[i].status)
    /\ (raised = {} /\ faults = 0 /\ Quiet /\ PendingIn(outbox) = {}) =>
         \A i \in 1..Len(outbox) :
           outbox[i].status = STATUS_DONE /\ LoggedOnceAs(i, STATUS_DONE)

\* The scenario of the specification: three events enqueued, the handler never
\* raised, a call with limit 2 returned with two events done and another call
\* finished the third: all three are DONE with three log entries.
C16_Witness ==
    /\ Len(outbox) = 3 /\ Len(outbox_log) = 3
    /\ raised = {} /\ faults = 0 /\ Quiet /\ PendingIn(outbox) = {}
    /\ \E d1, d2 \in Dispatchers :
         /\ disp[d1].ret = "returned" /\ disp[d1].limit = 2 /\ disp[d1].done = 2
         /\ disp[d2].ret = "returned" /\ disp[d2].done = 1

(***************************************************************************)
(* C17: the counts a process_outbox_batch call returns are exact: done is  *)
(* the number of events the call claimed and left DONE, failed the number  *)
(* it claimed and left FAILED, and done + failed the number of events it   *)
(* claimed.                                                                *)
(***************************************************************************)
LeftAs(d, status) == {i \in disp[d].claimed : outbox[i].status = status}

C17_ReturnedCountsExact ==
    \A d \in Dispatchers :
      disp[d].ret = "returned" =>
        /\ disp[d].done = Cardinality(LeftAs(d, STATUS_DONE))
        /\ disp[d].failed = Cardinality(LeftAs(d, STATUS_FAILED))
        /\ disp[d].done + disp[d].failed = Cardinality(disp[d].claimed)

\* A call has returned {done: 1, failed: 1}: one event it claimed is DONE and
\* the other is FAILED because the handler raised on it.
C17_Witness ==
    \E d \in Dispatchers :
      /\ disp[d].ret = "returned"
      /\ disp[d].done = 1 /\ disp[d].failed = 1
      /\ Cardinality(disp[d].claimed) = 2
      /\ \E i \in disp[d].raisedOn : outbox[i].status = STATUS_FAILED
      /\ \E j \in disp[d].claimed : outbox[j].status = STATUS_DONE

(***************************************************************************)
(* C18: enqueue_outbox adds exactly one event, PENDING with attempts 0,    *)
(* and returns its id; it changes no event already in outbox and no        *)
(* outbox_log entry; and it can be called whatever the number of PENDING   *)
(* or PROCESSING events and whatever the dispatchers are doing.            *)
(***************************************************************************)
Enqueues == Len(outbox') # Len(outbox)

C18_EnqueueAddsOnePending ==
    /\ [][Enqueues =>
            /\ Len(outbox') = Len(outbox) + 1
            /\ outbox'[Len(outbox')].status = STATUS_PENDING
            /\ outbox'[Len(outbox')].attempts = 0
            /\ inserted_id' = ToString(Len(outbox'))
            /\ SubSeq(outbox', 1, Len(outbox)) = outbox
            /\ outbox_log' = outbox_log]_vars
    /\ [](Len(outbox) < MaxEvents =>
            ENABLED (\E t \in Topics : enqueue_outbox(t, FALSE)))

\* The last event was enqueued, and its id returned, while an earlier event is
\* PENDING, another is PROCESSING in the hands of a running call, and the log
\* is empty.
C18_Witness ==
    /\ Len(outbox) = 3 /\ inserted_id = "3"
    /\ outbox[3].status = STATUS_PENDING /\ outbox[3].attempts = 0
    /\ \E i, j \in 1..2 :
         /\ outbox[i].status = STATUS_PENDING
         /\ outbox[j].status = STATUS_PROCESSING
         /\ \E d \in Dispatchers : disp[d].pc = "handler" /\ disp[d].evt = j

(***************************************************************************)
(* C19: when _get_or_create_user_by_qr finds an identity for the           *)
(* scanToken it only backfills: a non-empty name or company the identity   *)
(* already has is never replaced by a different value.                     *)
(***************************************************************************)
C19_BackfillNeverOverwrites ==
    [][\A i \in 1..Len(users) :
         /\ users[i].name # NoValue => users'[i].name = users[i].name
         /\ users[i].company # NoValue => users'[i].company = users[i].company]_vars

(***************************************************************************)
(* C20: sequential calls of _get_or_create_user_by_qr return stable and    *)
(* distinct ids: two calls with the same scanToken and the same phone      *)
(* return the same sysId, and calls with distinct scanTokens and distinct  *)
(* phones return distinct sysIds.                                          *)
(***************************************************************************)
Resolved(p) == Done(p, "resolve") /\ proc[p].status = "success"

C20_StableDistinctSysIds ==
    \A p, q \in Procs :
      (p # q /\ Resolved(p) /\ Resolved(q)) =>
        /\ (proc[p].qr = proc[q].qr /\ proc[p].e164 = proc[q].e164) =>
             proc[p].sysId = proc[q].sysId
        /\ (proc[p].qr # proc[q].qr /\ proc[p].e164 # proc[q].e164) =>
             proc[p].sysId # proc[q].sysId

\* Three calls have returned: two for the same scanToken and phone with the
\* sysId the first of them created, one for another scanToken and phone with
\* another sysId it created.
C20_Witness ==
    \E p, q, r \in Procs :
      /\ p # q /\ Resolved(p) /\ Resolved(q) /\ Resolved(r)
      /\ proc[p].qr = proc[q].qr /\ proc[p].e164 = proc[q].e164
      /\ proc[p].sysId = proc[q].sysId /\ proc[p].sysId \in SysIds
      /\ proc[r].qr # proc[p].qr /\ proc[r].e164 # proc[p].e164
      /\ proc[r].sysId # proc[p].sysId /\ proc[r].sysId \in SysIds

(***************************************************************************)
(* C21: every stored survey has raffleEligible = true exactly when its     *)
(* interest is "None", and has a raffleDate exactly when raffleEligible is *)
(* true (raffleDate is null otherwise).                                    *)
(***************************************************************************)
C21_RaffleFieldsFollowInterest ==
    \A i \in 1..Len(surveys) :
      /\ surveys[i].raffleEligible = (surveys[i].interest = "None")
      /\ (surveys[i].raffleDate # NoDate) = surveys[i].raffleEligible

\* Two surveys are stored: one with interest "None", eligible and dated at a
\* midnight, one with another interest, not eligible and without a raffleDate.
C21_Witness ==
    \E i, j \in 1..Len(surveys) :
      /\ surveys[i].interest = "None" /\ surveys[i].raffleEligible
      /\ surveys[i].raffleDate \in {_today_utc_midnight(t) : t \in Clock}
      /\ surveys[j].interest # "None" /\ ~surveys[j].raffleEligible
      /\ surveys[j].raffleDate = NoDate

(***************************************************************************)
(* C22: register_user never creates a second identity with a qrId or a     *)
(* phoneE164 that is already registered. A call that meets one, at its     *)
(* pre-checks or, after a race past them, at its insert, returns a         *)
(* structured error saying "qrId already registered" or "phone already     *)
(* registered" (the generic "Duplicate value" only when the index reported *)
(* is the one on sysId), and the step that fails leaves users unchanged.   *)
(***************************************************************************)
RegisterFails(p) ==
    /\ proc[p].kind = "register_user" /\ proc[p].pc # "done"
    /\ proc'[p].pc = "done" /\ proc'[p].status # "success"

C22_RegisterRejectsDuplicates ==
    /\ [](\A i, j \in 1..Len(users) :
            i # j => /\ users[i].qrId # users[j].qrId
                     /\ users[i].phoneE164 = NoValue
                        \/ users[i].phoneE164 # users[j].phoneE164)
    /\ [](\A p \in Procs :
            Done(p, "register_user") =>
              \/ /\ proc[p].status = "success"
                 /\ \E i \in 1..Len(users) :
                      /\ users[i].sysId = proc[p].sysId
                      /\ users[i].qrId = proc[p].qr
                      /\ users[i].phoneE164 = proc[p].e164
              \/ /\ proc[p].status = "error"
                 /\ proc[p].message \in {"qrId already registered",
                                         "phone already registered"}
              \/ /\ proc[p].status = "error"
                 /\ proc[p].message = "Duplicate value"
                 /\ proc[p].dup = "sysId")
    /\ [][\A p \in Procs :
            RegisterFails(p) =>
              /\ users' = users
              /\ proc'[p].message = "qrId already registered" =>
                   Count(users, "qrId", proc[p].qr) = 1
              /\ proc'[p].message = "phone already registered" =>
                   Count(users, "phoneE164", proc[p].e164) = 1]_vars

\* Two register_user calls for one qrId raced past the pre-checks: one created
\* the identity, the insert of the other hit the index and it returned "qrId
\* already registered"; a third call lost a race on the phone.
C22_Witness ==
    \E p, q, r \in Procs :
      /\ Done(p, "register_user") /\ proc[p].status = "success"
      /\ Done(q, "register_user") /\ proc[q].status = "error"
      /\ proc[q].qr = proc[p].qr /\ proc[q].dupOp = "insert"
      /\ proc[q].message = "qrId already registered"
      /\ Done(r, "register_user") /\ proc[r].status = "error"
      /\ proc[r].qr # proc[p].qr /\ proc[r].dupOp = "insert"
      /\ proc[r].message = "phone already registered"
      /\ Count(users, "qrId", proc[p].qr) = 1

(***************************************************************************)
(* C23: an HTTP request with a method other than OPTIONS to a path that is *)
(* not whitelisted as public is passed to the application exactly when its *)
(* x-api-key header (the last one, the name in any case) is not empty and  *)
(* equals the configured API_KEY; every other such request is answered 401 *)
(* by the middleware. An OPTIONS request is passed on without a key.       *)
(***************************************************************************)
KeyHeader(headers) ==
    SelectSeq(headers, LAMBDA h : h.k \in {"x-api-key", "X-API-Key"})

CarriesKey(headers) ==
    /\ KeyHeader(headers) # <<>>
    /\ KeyHeader(headers)[Len(KeyHeader(headers))].v = settings.API_KEY
    /\ settings.API_KEY # ""

Guarded == http.type = "http" /\ ~IsPublic(http.path)

Validates ==
    /\ validated' # validated
    /\ UNCHANGED <<keys, gen, issued>>

C24_KeysHashedAndValidated ==
    /\ [](\A i \in 1..Len(keys) :
            keys[i].hash \notin Plains /\ keys[i].label \notin Plains)
    /\ [](\A k \in issued : KeyFound(_sha256_hex(k)))
    /\ [](gen.pc = "idle" =>
            \A k \in Plains \ issued : ~KeyFound(_sha256_hex(k)))
    /\ [][Validates =>
            /\ validated'.key \in issued => validated'.status = "success"
            /\ (gen.pc = "idle" /\ validated'.key \notin issued) =>
                 validated'.status = "error"]_vars

\* Two generate_keys calls have returned two keys between them, a third key was
\* never returned, and the last validate_key call accepted a returned key.
C24_Witness ==
    /\ gen.pc = "idle" /\ gen.calls >= 2
    /\ Cardinality(issued) = 2 /\ Len(keys) = 2
    /\ validated.key \in issued /\ validated.status = "success"

(***************************************************************************)
(* C25: when resolve-or-create finds for the scanToken an identity that    *)
(* has no phone yet, and the supplied phone is held by a different         *)
(* identity, the call fails with a conflict outcome and submit_survey      *)
(* stores no survey: it does not go on with the existing identity's sysId. *)
(***************************************************************************)
PhoneHeldByOther(p) ==
    \E i, j \in 1..Len(users) :
      /\ i # j
      /\ users[i].qrId = proc[p].qr /\ users[i].phoneE164 = NoValue
      /\ users[j].phoneE164 = proc[p].e164

C25_BackfillConflictFails ==
    \A p \in Procs :
      (/\ proc[p].kind = "submit_survey"
       /\ proc[p].pc \in {"s_insert_survey", "done"}
       /\ PhoneHeldByOther(p)) =>
        /\ proc[p].pc = "done"
        /\ proc[p].status = "error"
        /\ \A i \in 1..Len(surveys) :
             ~(surveys[i].qrId = proc[p].qr /\ surveys[i].phoneE164 = proc[p].e164)

(***************************************************************************)
(* C26: whenever submit_survey returns an error outcome (a survey already  *)
(* exists for the phone, the existing identity's phone conflicts, or the   *)
(* phone belongs to another identity), it has inserted no survey and has   *)
(* neither created nor modified any identity.                              *)
(***************************************************************************)
SurveyFailed(p) == Done(p, "submit_survey") /\ proc[p].status = "error"

C26_FailedSurveyChangesNothing ==
    \A p \in Procs :
      (SurveyFailed(p) /\ pre.who = p) =>
        /\ users = pre.users
        /\ surveys = pre.surveys

\* After a registration, the last submit_survey was refused because its phone
\* belongs to another identity, the one before because the identity of its
\* scanToken has another phone.
C26_Witness ==
    \E p, q \in Procs :
      /\ SurveyFailed(p) /\ pre.who = p /\ pre.users # <<>>
      /\ proc[p].message = "phone already registered"
      /\ SurveyFailed(q)
      /\ proc[q].message = "phone already registered to a different user"

(***************************************************************************)
(* C27: an event's attempts field equals the number of times the event has *)
(* been claimed: it is 0 exactly while the event is PENDING, it goes up by *)
(* exactly 1 in the same atomic step that sets PROCESSING, and no other    *)
(* step changes it (marking DONE or FAILED leaves it unchanged).           *)
(***************************************************************************)
SetsProcessing(i) ==
    outbox[i].status # STATUS_PROCESSING /\ outbox'[i].status = STATUS_PROCESSING

C27_AttemptsCountClaims ==
    /\ [](\A i \in 1..Len(outbox) :
            /\ outbox[i].attempts = claimCount[i]
            /\ outbox[i].attempts = 0 <=> outbox[i].status = STATUS_PENDING)
    /\ [][\A i \in 1..Len(outbox) :
            /\ SetsProcessing(i) <=> outbox'[i].attempts = outbox[i].attempts + 1
            /\ ~SetsProcessing(i) => outbox'[i].attempts = outbox[i].attempts]_vars

\* Three events: one claimed once and marked DONE, one claimed once and marked
\* FAILED, one still PENDING and never claimed.
C27_Witness ==
    \E i, j, k \in 1..Len(outbox) :
      /\ outbox[i].status = STATUS_DONE /\ outbox[i].attempts = 1
      /\ outbox[j].status = STATUS_FAILED /\ outbox[j].attempts = 1
      /\ outbox[k].status = STATUS_PENDING /\ outbox[k].attempts = 0

(***************************************************************************)
(* C28: outbox_log is append-only and well-formed in every reachable       *)
(* state: an entry is never modified or removed once written, every entry  *)
(* references an existing outbox event, every entry's status is DONE or    *)
(* FAILED, and an entry carries an error exactly when its status is        *)
(* FAILED.                                                                 *)
(***************************************************************************)
C28_LogAppendOnlyWellFormed ==
    /\ [](\A n \in 1..Len(outbox_log) :
            /\ outbox_log[n].outboxId \in 1..Len(outbox)
            /\ outbox_log[n].topic = outbox[outbox_log[n].outboxId].topic
            /\ outbox_log[n].status \in {STATUS_DONE, STATUS_FAILED}
            /\ outbox_log[n].error # NoValue <=> outbox_log[n].status = STATUS_FAILED)
    /\ [][/\ Len(outbox_log') >= Len(outbox_log)
          /\ \A n \in 1..Len(outbox_log) : outbox_log'[n] = outbox_log[n]]_vars

\* The log holds a DONE entry without an error, then a FAILED entry with the
\* representation of the handler's exception, then another DONE entry.
C28_Witness ==
    /\ Len(outbox_log) = 3
    /\ outbox_log[1].status = STATUS_DONE /\ outbox_log[1].error = NoValue
    /\ outbox_log[2].status = STATUS_FAILED
    /\ outbox_log[2].error = repr("HandlerError")
    /\ outbox_log[3].status = STATUS_DONE

(***************************************************************************)
(* C29: no operation changes the qrId, the sysId or the createdAt of an    *)
(* existing identity: the backfill update of resolve-or-create and the     *)
(* counter update of submit_quiz leave them as they were, and identities   *)
(* are never deleted.                                                      *)
(***************************************************************************)
C29_IdentityKeysImmutable ==
    [][/\ Len(users') >= Len(users)
       /\ \A i \in 1..Len(users) :
            /\ users'[i].qrId = users[i].qrId
            /\ users'[i].sysId = users[i].sysId
            /\ users'[i].createdAt = users[i].createdAt]_vars

\* The identity of the earlier generation has received a phone from a
\* submit_survey and a quiz count from a submit_quiz, another identity was
\* created, and it still has its qrId, sysId and createdAt.
C29_Witness ==
    /\ Len(users) = 2
    /\ users[1].phoneE164 # NoValue /\ users[1].totalQuizzes = 1
    /\ users[1].qrId = LegacyUser.qrId /\ users[1].sysId = LegacyUser.sysId
    /\ users[1].createdAt = LegacyUser.createdAt
    /\ users[2].createdAt \in Noon

(***************************************************************************)
(* C30: validate_quiz_eligibility returns eligible = true for a qrId       *)
(* exactly when a submit_quiz for that qrId issued immediately afterwards  *)
(* (no request in between) succeeds; in particular it returns eligible =   *)
(* false after a successful submit_quiz for that qrId.                     *)
(***************************************************************************)
C30_EligibleIffSubmitSucceeds ==
    /\ \A q \in Procs :
         (Done(q, "submit_quiz") /\ proc[q].told # NoValue) =>
           (proc[q].told = "true" <=> proc[q].status = "success")
    /\ \A p, q \in Procs :
         (/\ Done(p, "validate_quiz_eligibility") /\ pre.who = p
          /\ Done(q, "submit_quiz") /\ proc[q].status = "success"
          /\ proc[q].qr = proc[p].qr) => proc[p].eligible = "false"

(***************************************************************************)
(* C31: the handler is invoked at most once per outbox event over the      *)
(* event's whole life, across any number of sequential or concurrent       *)
(* process_outbox_batch calls and dispatcher crashes: it is invoked only   *)
(* on an event a claim returned, only PENDING events are claimed, and no   *)
(* step returns an event to PENDING.                                       *)
(***************************************************************************)
C31_HandlerAtMostOnce ==
    /\ [](\A i \in 1..Len(outbox) :
            /\ handled[i] <= 1
            /\ handled[i] <= claimCount[i]
            /\ handled[i] = 1 => outbox[i].status # STATUS_PENDING)
    /\ [][\A i \in 1..Len(outbox) :
            /\ handled'[i] # handled[i] =>
                 \E d \in Dispatchers : disp[d].pc = "handler" /\ disp[d].evt = i
            /\ outbox[i].status # STATUS_PENDING =>
                 outbox'[i].status # STATUS_PENDING]_vars

\* A dispatcher crashed after the handler had run on its event, which stays
\* PROCESSING; a later call of the other dispatcher has handled a second event
\* and returned without touching the first.
C31_Witness ==
    \E d, e \in Dispatchers, i, j \in 1..Len(outbox) :
      /\ d # e /\ i # j
      /\ disp[d].pc = "idle" /\ disp[d].ret = "crashed" /\ disp[d].evt = i
      /\ outbox[i].status = STATUS_PROCESSING /\ handled[i] = 1
      /\ disp[e].pc = "idle" /\ disp[e].ret = "returned"
      /\ disp[e].claimed = {j} /\ disp[e].nclaims = 2
      /\ handled[j] = 1 /\ outbox[j].status \in {STATUS_DONE, STATUS_FAILED}

(***************************************************************************)
(* C32: an event ends in status FAILED only if its handler raised: when    *)
(* the handler returns normally the event ends DONE with a DONE log entry, *)
(* even if a store call made after the handler (the DONE status update or  *)
(* the DONE log insert) fails.                                             *)
(***************************************************************************)
C32_FailedOnlyIfHandlerRaised ==
    /\ \A i \in 1..Len(outbox) :
         outbox[i].status = STATUS_FAILED => i \in raised
    /\ \A n \in 1..Len(outbox_log) :
         outbox_log[n].status = STATUS_FAILED => outbox_log[n].outboxId \in raised

(***************************************************************************)
(* C33: liveness without crashes: if finitely many events are enqueued,    *)
(* handlers always terminate, no dispatcher crashes and                    *)
(* process_outbox_batch is invoked again and again (weak fairness), then   *)
(* every enqueued event eventually reaches DONE or FAILED, and no event    *)
(* stays PENDING or PROCESSING for ever.                                   *)
(***************************************************************************)
Enqueued(i) == i <= Len(outbox)

Settled(i) == Enqueued(i) /\ outbox[i].status \in {STATUS_DONE, STATUS_FAILED}

C33_EveryEventSettles ==
    \A i \in 1..MaxEvents : Enqueued(i) ~> Settled(i)

(***************************************************************************)
(* C34: referential integrity: in every reachable state, every survey and  *)
(* every quiz result carries a (sysId, qrId) pair that is the sysId and    *)
(* the qrId of one existing identity.                                      *)
(***************************************************************************)
RefersToIdentity(doc) ==
    \E i \in 1..Len(users) :
        users[i].sysId = doc.sysId /\ users[i].qrId = doc.qrId

C34_ReferentialIntegrity ==
    /\ \A n \in 1..Len(surveys) : RefersToIdentity(surveys[n])
    /\ \A n \in 1..Len(quiz_results) : RefersToIdentity(quiz_results[n])

\* A survey and a quiz result are stored for two different identities, one of
\* them created by the submit_survey itself.
C34_Witness ==
    /\ Len(users) = 2
    /\ \E n \in 1..Len(surveys), m \in 1..Len(quiz_results) :
         /\ surveys[n].qrId # quiz_results[m].qrId
         /\ surveys[n].sysId # quiz_results[m].sysId
         /\ surveys[n].sysId # LegacyUser.sysId

(***************************************************************************)
(* C35: for every raffle-eligible survey, raffleDate is the start of the   *)
(* UTC day that contains the survey's own submittedAt, although            *)
(* submit_survey reads the clock once for submittedAt and once more for    *)
(* raffleDate.                                                             *)
(***************************************************************************)
C35_RaffleDateIsDayOfSubmittedAt ==
    \A n \in 1..Len(surveys) :
        surveys[n].raffleEligible
        => surveys[n].raffleDate = _today_utc_midnight(surveys[n].submittedAt)

(***************************************************************************)
(* C36: connect_to_mongo creates at most one store client per process:     *)
(* when several get_db calls run concurrently before the first connection  *)
(* completes, no second client is constructed and all of them end up with  *)
(* the same client and database handle (stated for runs in which no ping   *)
(* fails).                                                                 *)
(***************************************************************************)
NoPingFailed == \A c \in Callers : conn[c].exc # "PyMongoError"

C36_AtMostOneClient ==
    NoPingFailed =>
        /\ clients <= 1
        /\ \A c, d \in Callers :
             (conn[c].pc = "done" /\ conn[d].pc = "done")
             => conn[c].ret = conn[d].ret /\ conn[c].ret = <<1, 1>>
====
